---- MODULE Spec2Model ----
(***************************************************************************)
(* Verification model of the wf-live-previews Wayfire plugin.              *)
(*                                                                         *)
(*   Spec      - the plugin of src/live-previews.cpp (post-hook capture,   *)
(*               hooks_set, frame_skip, on_output_pre_remove).             *)
(*   SpecSA    - the session-aware plugin of src/unnamed/part_001 (render  *)
(*               node, on_session_active, idle_damage).                    *)
(*   SpecScale - the scaling arithmetic of request_stream of both plugins, *)
(*               applied to inputs drawn from bounded sets.                *)
(*                                                                         *)
(* The host (Wayfire core, wlroots) is modelled only as far as the plugin  *)
(* observes it: the views that find_view_by_id resolves, the outputs in    *)
(* the output layout, the hooks registered on an output's render manager,  *)
(* and the signals the host emits.                                         *)
(***************************************************************************)
EXTENDS Integers, Sequences, FiniteSets, TLC

(***************************************************************************)
(* Binary floating point, as the scaling code uses it.  A float is a       *)
(* record [m, e]: m is a sequence of exactly p bits, most significant      *)
(* first and equal to 1, and the value is m * 2^e (e is the weight of the  *)
(* last bit).  Rounding is IEEE-754 round-to-nearest, ties-to-even.  Bit   *)
(* sequences keep every intermediate integer far below 2^31.               *)
(***************************************************************************)
FloatMantissaBits == 24

DoubleMantissaBits == 53

RECURSIVE BitsOf(_)
BitsOf(n) == IF n = 0 THEN <<>> ELSE Append(BitsOf(n \div 2), n % 2)

RECURSIVE ValueOf(_)
ValueOf(bits) ==
    IF bits = <<>> THEN 0
    ELSE 2 * ValueOf(SubSeq(bits, 1, Len(bits) - 1)) + bits[Len(bits)]

Zeros(n) == [i \in 1..n |-> 0]

\* bits + 1, same length; an all-ones sequence wraps to all zeros.
RECURSIVE IncBits(_)
IncBits(bits) ==
    IF bits = <<>> THEN <<>>
    ELSE LET n == Len(bits) IN
         IF bits[n] = 0 THEN [bits EXCEPT ![n] = 1]
         ELSE Append(IncBits(SubSeq(bits, 1, n - 1)), 0)

\* Round the number bits * 2^e (bits starts with 1; sticky says that a
\* non-zero part below the last bit was already cut off) to p bits.
RoundToNearestEven(bits, e, sticky, p) ==
    LET n == Len(bits) IN
    IF n <= p
    THEN [m |-> bits \o Zeros(p - n), e |-> e - (p - n)]
    ELSE LET keep  == SubSeq(bits, 1, p)
             guard == bits[p + 1]
             rest  == sticky \/ (\E i \in (p + 2)..n : bits[i] = 1)
             up    == guard = 1 /\ (rest \/ keep[p] = 1)
             inc   == IncBits(keep)
         IN  IF ~up THEN [m |-> keep, e |-> e + (n - p)]
             ELSE IF inc[1] = 1 THEN [m |-> inc, e |-> e + (n - p)]
             ELSE [m |-> <<1>> \o SubSeq(inc, 1, p - 1), e |-> e + (n - p) + 1]

\* Long division r / c continued below the binary point until acc holds n
\* significant bits; e is the weight of the next bit to be produced (always
\* negative: the test of e makes TLC evaluate it at every level).
RECURSIVE FracDiv(_, _, _, _, _)
FracDiv(r, c, acc, e, n) ==
    IF e < 0 /\ Len(acc) >= n
    THEN [bits |-> acc, e |-> e + 1, sticky |-> r # 0]
    ELSE LET r2  == 2 * r
             bit == IF r2 >= c THEN 1 ELSE 0
         IN  FracDiv(r2 - c * bit, c,
                     IF acc = <<>> /\ bit = 0 THEN <<>> ELSE Append(acc, bit),
                     e - 1, n)

\* The float nearest to b / c (b, c positive integers): float(b) / float(c).
FloatDiv(b, c, p) ==
    LET q == FracDiv(b % c, c, BitsOf(b \div c), -1, p + 1)
    IN  RoundToNearestEven(q.bits, q.e, q.sticky, p)

\* a * bits as a bit sequence (schoolbook, least significant bit first);
\* acc holds the Len(bits) - i bits produced so far.
RECURSIVE MulBits(_, _, _, _, _)
MulBits(a, bits, i, carry, acc) ==
    IF Len(acc) = Len(bits) /\ i = 0 THEN BitsOf(carry) \o acc
    ELSE LET t == a * bits[i] + carry
         IN  MulBits(a, bits, i - 1, t \div 2, <<t % 2>> \o acc)

\* The float nearest to a * f (a a positive integer): float(a) * f.
FloatMul(a, f, p) ==
    RoundToNearestEven(MulBits(a, f.m, Len(f.m), 0, <<>>), f.e, FALSE, p)

\* Conversion of a non-negative float to int: truncation toward zero.
FloatToInt(f) ==
    IF f.e >= 0 THEN ValueOf(f.m \o Zeros(f.e))
    ELSE IF Len(f.m) + f.e <= 0 THEN 0
    ELSE ValueOf(SubSeq(f.m, 1, Len(f.m) + f.e))

(***************************************************************************)
(* The host, as the plugins observe it.                                    *)
(***************************************************************************)
None == "none"

\* Identifiers a caller may pass.  Toplevels resolve to toplevel views,
\* OtherViews to views that toplevel_cast rejects, UnknownIds to nothing.
Toplevels == {"A", "B"}

OtherViews == {"panel"}

UnknownIds == {"nil"}

ViewIds == Toplevels \cup OtherViews

RequestIds == ViewIds \cup UnknownIds

\* wf::output_t objects the headless backend hands out.
OutputIds == {"o1", "o2"}

OtherOutput(o) == CHOOSE x \in OutputIds : x # o

\* toplevel->get_geometry(): width and height of a toplevel.
Geometries ==
    { [width |-> 800, height |-> 600],
      [width |-> 600, height |-> 800],
      [width |-> 41,  height |-> 41] }

\* Geometries of a toplevel without extent: a view that exists but has no
\* size yet in one or both directions.
DegenerateGeometries ==
    { [width |-> 0,   height |-> 600],
      [width |-> 800, height |-> 0],
      [width |-> 0,   height |-> 0] }

\* int(NaN) is undefined: cvttss2si yields INT_MIN, other targets yield 0.
NaNToInt == {0, -2147483647 - 1}

\* The geometry entry of a toplevel that is not mapped.
NoGeometry == [width |-> 0, height |-> 0]

\* The mode entry of an output that does not exist.
NoMode == [width |-> 0, height |-> 0]

\* Values of the option live-previews/max_dimension.
MaxDimensions == {256}

\* The output the toplevels are shown on, view->get_output(); it is also
\* what output_layout->get_next_output() yields for the headless output.
Screen == "screen"

\* handle->scale of a wlr_output is a float; 1.0 until it is configured.
NativeScale == FloatDiv(1, 1, FloatMantissaBits)

\* Values of handle->scale of the screen.
ScreenScales == {NativeScale, FloatDiv(2, 1, FloatMantissaBits)}

\* Damage regions, as boxes in root coordinates.
Regions ==
    { [x |-> 10, y |-> 20, width |-> 30, height |-> 40],
      [x |-> 0,  y |-> 0,  width |-> 5,  height |-> 5] }

\* wf::origin(wo->get_layout_geometry()): where the layout puts the output.
Origins == { [x |-> 0, y |-> 0], [x |-> 1920, y |-> 100] }

\* Scale of the target framebuffer of an output.
BufferScales == {1, 2}

\* The damage and the framebuffer of the runs that do not vary them.
WholeRegion == [x |-> 0, y |-> 0, width |-> 5, height |-> 5]

UnitFramebuffer == [origin |-> [x |-> 0, y |-> 0], scale |-> 1]

\* What the host answers push_damage: the layout origin of the output and
\* the scale of its target framebuffer.
Framebuffers == [origin : Origins, scale : BufferScales]

\* Largest value of the option live-previews/frame_skip that is explored.
MaxFrameSkip == 2

\* What an operation leaves behind when it ends in undefined behaviour: the
\* process dies, or it carries on as if the freed object were still there.
UBOutcomes == {"crash", "proceed"}

\* What the host does when asked for the headless backend and its output.
HostOutcomes == {"ok", "no_backend", "no_output"}

VARIABLES
    views,                \* ids find_view_by_id resolves
    geometry,             \* geometry of each toplevel
    layout,               \* outputs named "live-preview" in the output layout
    mode,                 \* committed mode of each output
    render_hooks,         \* registrations of post_hook/damage_hook per output
    next_output,          \* the wf::output_t the next headless output gets
    max_dimension,        \* option live-previews/max_dimension
    frame_skip,           \* option live-previews/frame_skip
    current_preview,      \* live-previews.cpp: wayfire_view current_preview
    wo,                   \* live-previews.cpp: wf::output_t *wo
    current_size,         \* live-previews.cpp: wf::dimensions_t current_size
    hooks_set,            \* live-previews.cpp: std::map<output_t*, bool>
    drop_frame,           \* live-previews.cpp: int drop_frame
    instance_manager,     \* view whose subtree the render instance manager observes
    headless_backend,     \* wlr_backend *headless_backend (TRUE when created)
    view_unmapped,        \* views the view_unmapped connection is connected to
    on_output_pre_remove, \* outputs the on_output_pre_remove connection is connected to
    crashed,              \* the process died in undefined behaviour
    last,                 \* the callback that ran last: op, arg, ret, calls, again
    preview,              \* part_001: live_preview preview (size, output, view, down_scale)
    live_preview_render_node, \* part_001: output whose LOCK layer holds the node
    idle_damage,          \* part_001: view captured by the pending idle_damage task
    session_active,       \* wf::get_core().session->active
    output_scale,         \* handle->scale of each output
    sc,                   \* SpecScale: one input of the scaling and its results
    nan_to_int,           \* what the build's conversion of a NaN float to int yields
    ticks,                \* SpecFrames: the latest post-render ticks of the running
                          \* stream, TRUE for a tick that ran the capture
    screen_scale,         \* handle->scale of the screen
    active_output,        \* wf::get_core().seat->get_active_output()
    awaiting_frame        \* SpecFrames: request_stream returned ok and post_hook
                          \* has not run since

hostVars == <<views, geometry, layout, mode, render_hooks, next_output, max_dimension, frame_skip>>

sessionVars ==
    <<current_preview, wo, current_size, hooks_set, drop_frame, instance_manager,
      headless_backend, view_unmapped, on_output_pre_remove>>

\* What the plugin of live-previews.cpp reads and writes of the screen and the seat.
seatVars == <<screen_scale, active_output>>

mainVars == <<hostVars, sessionVars, seatVars, crashed, last>>

\* Variables only the plugin of live-previews.cpp uses.
mainOnlyVars ==
    <<current_preview, wo, current_size, hooks_set, drop_frame, instance_manager,
      on_output_pre_remove, frame_skip, render_hooks, nan_to_int, ticks,
      screen_scale, active_output, awaiting_frame>>

\* Variables only the plugin of part_001 uses.
saOnlyVars == <<preview, live_preview_render_node, idle_damage, session_active, output_scale>>

otherVars == <<saOnlyVars, sc, nan_to_int, ticks, awaiting_frame>>

vars == <<mainVars, saOnlyVars, sc, nan_to_int, ticks, awaiting_frame>>

\* Mutant of ScaledSize: the comparison of the two sides is inverted.
ScaledSize_inverted(vg, max) ==
    IF vg.width > vg.height
    THEN [width  |-> FloatToInt(FloatMul(vg.width,
                        FloatDiv(max, vg.height, FloatMantissaBits), FloatMantissaBits)),
          height |-> max]
    ELSE [width  |-> max,
          height |-> FloatToInt(FloatMul(vg.height,
                        FloatDiv(max, vg.width, FloatMantissaBits), FloatMantissaBits))]

(***************************************************************************)
(* Scaling in request_stream of live-previews.cpp: single precision.       *)
(*     vg.width = vg.width * (max_dimension / float(vg.height));           *)
(***************************************************************************)
ScaledSize(vg, max) ==
    IF vg.width < vg.height
    THEN [width  |-> FloatToInt(FloatMul(vg.width,
                        FloatDiv(max, vg.height, FloatMantissaBits), FloatMantissaBits)),
          height |-> max]
    ELSE [width  |-> max,
          height |-> FloatToInt(FloatMul(vg.height,
                        FloatDiv(max, vg.width, FloatMantissaBits), FloatMantissaBits))]

\* The sizes of the geometries and options explored, computed once.
ScaleTable ==
    { [vg |-> g, max |-> m, size |-> ScaledSize(g, m)] :
        g \in Geometries, m \in MaxDimensions }

\* The same computation for a geometry with a zero side: 0 * (max / float(h))
\* is 0.0; max / float(0) is +inf, 0 * +inf is NaN, and int(NaN) is what
\* the build makes of it.
DegenerateSize(vg, max) ==
    IF vg.width < vg.height THEN [width |-> 0, height |-> max]
    ELSE IF vg.width = 0 THEN [width |-> max, height |-> nan_to_int]
    ELSE [width |-> max, height |-> 0]

TargetSize(vg, max) ==
    IF vg.width = 0 \/ vg.height = 0 THEN DegenerateSize(vg, max)
    ELSE (CHOOSE t \in ScaleTable : t.vg = vg /\ t.max = max).size

\* A member without initializer holds an indeterminate value until it is
\* first assigned.  current_size is compared with the target size of the
\* first request while wo is still null: equal or not, the request leaves
\* current_size at the target size, so one value that equals no target size
\* stands for all of them.  drop_frame is assigned before it is first read.
Indeterminate == -1

IndeterminateSize == [width |-> Indeterminate, height |-> Indeterminate]

(***************************************************************************)
(* live-previews.cpp.  A handler is an operator from the state s before    *)
(* the callback (plugin fields and the host objects it touches) to the     *)
(* state after it; s.calls logs, in order, the host calls the handler      *)
(* made and s.ret is what it returned.                                     *)
(***************************************************************************)
Call(s, c) == [s EXCEPT !.calls = Append(@, c)]

Returns(s, r) == [s EXCEPT !.ret = r]

\* A use of output o through a pointer: undefined once o has been destroyed.
Deref(s, o, c) ==
    IF o \in s.layout THEN Call(s, c) ELSE Call(Call(s, "UB:destroyed-output"), c)

destroy_render_instance_manager(s) ==
    IF s.instance_manager = None THEN s
    ELSE Call([s EXCEPT !.instance_manager = None], "instance_manager.reset")

create_render_instance_manager(s, view) ==
    IF s.instance_manager # None THEN s
    ELSE Call([s EXCEPT !.instance_manager = view], "make instance_manager")

\* wo->render->add_post(&post_hook); wo->render->add_effect(&damage_hook, ...)
AddHooks(s, o) ==
    LET t == Deref(Deref(s, o, "add_post"), o, "add_effect")
    IN  IF o \in s.layout
        THEN [t EXCEPT !.render_hooks[o] = @ + 1]
        ELSE t

\* wo->render->rem_post(&post_hook); wo->render->rem_effect(&damage_hook)
RemHooks(s, o) ==
    LET t == Deref(Deref(s, o, "rem_post"), o, "rem_effect")
    IN  IF o \in s.layout
        THEN [t EXCEPT !.render_hooks[o] = 0]
        ELSE t

\* if (hooks_set[wo]) { rem_post; rem_effect; hooks_set[wo] = false; }
RemoveHooksIfSet(s, o) ==
    IF s.hooks_set[o]
    THEN [RemHooks(s, o) EXCEPT !.hooks_set[o] = FALSE]
    ELSE s

\* output_layout->find_output("live-preview")
find_output(s) == IF s.layout = {} THEN None ELSE CHOOSE o \in s.layout : TRUE

on_output_pre_remove_handler(s) ==
    IF s.wo = None THEN s
    ELSE LET s1 == destroy_render_instance_manager(s)
         IN  RemoveHooksIfSet([s1 EXCEPT !.current_preview = None], s1.wo)

\* Mutant of destroy_output: on_output_pre_remove stays connected until the
\* output has been destroyed.
destroy_output_disconnects_late(s) ==
    LET output == find_output(s) IN
    IF output = None THEN s
    ELSE LET s1 == destroy_render_instance_manager(s)
             s2 == Call([s1 EXCEPT !.current_preview = None, !.view_unmapped = {}],
                        "view_unmapped.disconnect")
             s3 == RemoveHooksIfSet(s2, output)
             s5 == IF s3.active_output = output
                   THEN Call([s3 EXCEPT !.active_output = Screen], "focus_output")
                   ELSE s3
             s6 == Call(Call(s5, "wlr_output_layout_remove"), "wlr_output_destroy")
             s7 == IF output \in s6.on_output_pre_remove
                   THEN on_output_pre_remove_handler(Call(s6, "output_pre_remove_signal"))
                   ELSE s6
             s8 == Call([s7 EXCEPT !.layout = @ \ {output},
                                   !.mode[output] = NoMode,
                                   !.render_hooks[output] = 0,
                                   !.on_output_pre_remove = {}],
                        "on_output_pre_remove.disconnect")
         IN  IF output = s8.wo THEN [s8 EXCEPT !.wo = None] ELSE s8

\* Mutant of destroy_output: the session is unwound and wo cleared, but the
\* output is neither removed from the layout nor destroyed.
destroy_output_leaks(s) ==
    LET output == find_output(s) IN
    IF output = None THEN s
    ELSE LET s1 == destroy_render_instance_manager(s)
             s2 == Call([s1 EXCEPT !.current_preview = None, !.view_unmapped = {}],
                        "view_unmapped.disconnect")
             s3 == RemoveHooksIfSet(s2, output)
             s4 == Call([s3 EXCEPT !.on_output_pre_remove = {}],
                        "on_output_pre_remove.disconnect")
         IN  IF output = s4.wo THEN [s4 EXCEPT !.wo = None] ELSE s4

destroy_output(s) ==
    LET output == find_output(s) IN
    IF output = None THEN s
    ELSE LET s1 == destroy_render_instance_manager(s)
             s2 == Call([s1 EXCEPT !.current_preview = None, !.view_unmapped = {}],
                        "view_unmapped.disconnect")
             s3 == RemoveHooksIfSet(s2, output)
             s4 == Call([s3 EXCEPT !.on_output_pre_remove = {}],
                        "on_output_pre_remove.disconnect")
             s5 == IF s4.active_output = output
                   THEN Call([s4 EXCEPT !.active_output = Screen], "focus_output")
                   ELSE s4
             s6 == Call(Call(s5, "wlr_output_layout_remove"), "wlr_output_destroy")
             \* the output going away signals output_pre_remove to whoever
             \* is still connected to it
             s7 == IF output \in s6.on_output_pre_remove
                   THEN on_output_pre_remove_handler(Call(s6, "output_pre_remove_signal"))
                   ELSE s6
             s8 == [s7 EXCEPT !.layout = @ \ {output},
                              !.mode[output] = NoMode,
                              !.render_hooks[output] = 0,
                              !.on_output_pre_remove = @ \ {output}]
         IN  IF output = s8.wo THEN [s8 EXCEPT !.wo = None] ELSE s8

\* Mutant of BindToOutput: the hooks are added without a look at hooks_set.
BindToOutput_always_adds(s, view) ==
    LET s1 == [AddHooks(s, s.wo) EXCEPT !.hooks_set[s.wo] = TRUE]
        s2 == Call([s1 EXCEPT !.view_unmapped = @ \cup {view}], "view->connect")
        s3 == create_render_instance_manager(destroy_render_instance_manager(s2), view)
    IN  Returns(Call([s3 EXCEPT !.current_preview = view], "view->damage"), "ok")

\* The part of request_stream after the size check, when wo is set
\* (live-previews.cpp lines 153-167).
BindToOutput(s, view) ==
    LET s1 == IF ~s.hooks_set[s.wo]
              THEN [AddHooks(s, s.wo) EXCEPT !.hooks_set[s.wo] = TRUE]
              ELSE s
        s2 == Call([s1 EXCEPT !.view_unmapped = @ \cup {view}], "view->connect")
        s3 == create_render_instance_manager(destroy_render_instance_manager(s2), view)
    IN  Returns(Call([s3 EXCEPT !.current_preview = view], "view->damage"), "ok")

\* The part of request_stream that creates the headless output
\* (live-previews.cpp lines 168-201).
CreateOutput(s, view, vg, host) ==
    LET s1 == IF s.headless_backend THEN s
              ELSE IF host = "no_backend"
              THEN Call(Call(s, "wlr_headless_backend_create"), "CRASH:null-backend")
              ELSE Call([s EXCEPT !.headless_backend = TRUE], "wlr_headless_backend_create")
        new == s.next_output
        s2 == IF host = "no_output"
              THEN Call(Call(s1, "wlr_headless_add_output"), "CRASH:null-output")
              ELSE Call([s1 EXCEPT !.layout = @ \cup {new},
                                   !.mode[new] = vg,
                                   !.render_hooks[new] = 0,
                                   !.next_output = OtherOutput(new),
                                   !.wo = new],
                        "wlr_headless_add_output")
        s3 == IF ~s2.hooks_set[s2.wo]
              THEN [AddHooks(s2, s2.wo) EXCEPT !.hooks_set[s2.wo] = TRUE]
              ELSE s2
        s4 == Call([s3 EXCEPT !.on_output_pre_remove = @ \cup {s3.wo}], "wo->connect")
        s5 == Call([s4 EXCEPT !.view_unmapped = @ \cup {view}], "view->connect")
        s6 == create_render_instance_manager(destroy_render_instance_manager(s5), view)
    IN  Returns(Call([s6 EXCEPT !.current_preview = view], "view->damage"), "ok")

\* Mutant of ApplySize: current_size is recorded only once the output took
\* the mode.
ApplySize_records_accepted(s, vg, accept) ==
    LET s1 == [s EXCEPT !.drop_frame = frame_skip] IN
    IF vg = s1.current_size THEN s1
    ELSE IF s1.wo = None THEN [s1 EXCEPT !.current_size = vg]
    ELSE LET s3 == Deref(s1, s1.wo, "wlr_output_test_state") IN
         IF accept
         THEN LET s4 == Deref([s3 EXCEPT !.current_size = vg], s3.wo,
                              "wlr_output_commit_state")
              IN  IF s4.wo \in s4.layout THEN [s4 EXCEPT !.mode[s4.wo] = vg] ELSE s4
         ELSE destroy_output(s3)

\* Mutant of ApplySize: the drop counter starts at 0.
ApplySize_counts_from_zero(s, vg, accept) ==
    LET s1 == [s EXCEPT !.drop_frame = 0] IN
    IF vg = s1.current_size THEN s1
    ELSE LET s2 == [s1 EXCEPT !.current_size = vg] IN
         IF s2.wo = None THEN s2
         ELSE LET s3 == Deref(s2, s2.wo, "wlr_output_test_state") IN
              IF accept
              THEN LET s4 == Deref(s3, s3.wo, "wlr_output_commit_state")
                   IN  IF s4.wo \in s4.layout THEN [s4 EXCEPT !.mode[s4.wo] = vg] ELSE s4
              ELSE destroy_output(s3)

\* Mutant of ApplySize: the output is resized whether or not the size changed.
ApplySize_always_resizes(s, vg, accept) ==
    LET s2 == [s EXCEPT !.drop_frame = frame_skip, !.current_size = vg] IN
    IF s2.wo = None THEN s2
    ELSE LET s3 == Deref(s2, s2.wo, "wlr_output_test_state") IN
         IF accept
         THEN LET s4 == Deref(s3, s3.wo, "wlr_output_commit_state")
              IN  IF s4.wo \in s4.layout THEN [s4 EXCEPT !.mode[s4.wo] = vg] ELSE s4
         ELSE destroy_output(s3)

\* Mutant of ApplySize: a rejected mode is ignored and the output kept.
ApplySize_keeps_rejected(s, vg, accept) ==
    LET s1 == [s EXCEPT !.drop_frame = frame_skip] IN
    IF vg = s1.current_size THEN s1
    ELSE LET s2 == [s1 EXCEPT !.current_size = vg] IN
         IF s2.wo = None THEN s2
         ELSE LET s3 == Deref(s2, s2.wo, "wlr_output_test_state") IN
              IF accept
              THEN LET s4 == Deref(s3, s3.wo, "wlr_output_commit_state")
                   IN  IF s4.wo \in s4.layout THEN [s4 EXCEPT !.mode[s4.wo] = vg] ELSE s4
              ELSE s3

\* The size check of request_stream (live-previews.cpp lines 125-152);
\* accept is the answer of wlr_output_test_state.
ApplySize(s, vg, accept) ==
    LET s1 == [s EXCEPT !.drop_frame = frame_skip] IN
    IF vg = s1.current_size THEN s1
    ELSE LET s2 == [s1 EXCEPT !.current_size = vg] IN
         IF s2.wo = None THEN s2
         ELSE LET s3 == Deref(s2, s2.wo, "wlr_output_test_state") IN
              IF accept
              THEN LET s4 == Deref(s3, s3.wo, "wlr_output_commit_state")
                   IN  IF s4.wo \in s4.layout THEN [s4 EXCEPT !.mode[s4.wo] = vg] ELSE s4
              ELSE destroy_output(s3)

\* Mutant of request_stream: the drop counter is reset before the view is
\* looked up.
request_stream_resets_first(s, id, accept, host) ==
    LET s0 == [s EXCEPT !.drop_frame = frame_skip] IN
    IF id \notin views THEN Returns(s0, "no such view")
    ELSE IF id \notin Toplevels THEN Returns(s0, "view is not a toplevel")
    ELSE LET vg == TargetSize(geometry[id], max_dimension)
             s1 == ApplySize(s0, vg, accept)
         IN  IF s1.wo # None THEN BindToOutput(s1, id)
             ELSE CreateOutput(s1, id, vg, host)

request_stream(s, id, accept, host) ==
    IF id \notin views THEN Returns(s, "no such view")
    ELSE IF id \notin Toplevels THEN Returns(s, "view is not a toplevel")
    ELSE LET vg == TargetSize(geometry[id], max_dimension)
             s1 == ApplySize(s, vg, accept)
         IN  IF s1.wo # None THEN BindToOutput(s1, id)
             ELSE CreateOutput(s1, id, vg, host)

\* Mutant of release_output: returns as soon as it has destroyed the render
\* instance manager.
release_output_returns_early(s) ==
    IF s.instance_manager # None
    THEN Returns(destroy_render_instance_manager(s), "ok")
    ELSE LET s2 == Call([s EXCEPT !.view_unmapped = {}], "view_unmapped.disconnect")
         IN  Returns(RemoveHooksIfSet(s2, s2.wo), "ok")

\* Mutant of release_output: destroys the output, as the first version of
\* the plugin did.
release_output_destroys(s) ==
    LET s1 == destroy_render_instance_manager(s)
        s2 == Call([s1 EXCEPT !.view_unmapped = {}], "view_unmapped.disconnect")
    IN  Returns(destroy_output(s2), "ok")

release_output(s) ==
    LET s1 == destroy_render_instance_manager(s)
        s2 == Call([s1 EXCEPT !.view_unmapped = {}], "view_unmapped.disconnect")
    IN  Returns(RemoveHooksIfSet(s2, s2.wo), "ok")

damage_hook(s) ==
    IF s.wo = None THEN s
    ELSE Deref(Deref(s, s.wo, "damage_whole"), s.wo, "schedule_redraw")

\* max_dimension / float(vg.width), for the geometries and options explored.
TempScaleTable ==
    { [vg |-> g, max |-> m, scale |-> FloatDiv(m, g.width, FloatMantissaBits)] :
        g \in Geometries, m \in MaxDimensions }

\* A positive float divided by 0.0f: +inf.
PositiveInfinity == [m |-> <<1>>, e |-> 128]

temp_scale(vg, max) ==
    IF vg.width = 0 THEN PositiveInfinity
    ELSE (CHOOSE t \in TempScaleTable : t.vg = vg /\ t.max = max).scale

\* Mutant of Capture: the scale of the screen is not put back after the snapshot.
Capture_keeps_temp_scale(s) ==
    LET view == s.current_preview
        s1 == Call(IF view \in views THEN s ELSE Call(s, "UB:destroyed-view"),
                   "view->damage")
        vg == geometry[view]
        s2 == [s1 EXCEPT !.screen_scale = temp_scale(vg, max_dimension)]
        s3 == Call([s2 EXCEPT !.snapshot = [view |-> view, vg |-> vg,
                                            scale |-> s2.screen_scale]],
                   "take_snapshot")
    IN  Call(Call(s3, "blit"), "view->damage")

\* The body of run_in_context in post_hook: snapshot at a temporary scale,
\* blit.  s.snapshot records the view that was snapshotted, its geometry
\* and the scale its output had while take_snapshot ran.
Capture(s) ==
    LET view == s.current_preview
        s1 == Call(IF view \in views THEN s ELSE Call(s, "UB:destroyed-view"),
                   "view->damage")
        vg == geometry[view]
        saved == s1.screen_scale      \* auto output_scale = handle->scale
        s2 == [s1 EXCEPT !.screen_scale = temp_scale(vg, max_dimension)]
        s3 == Call([s2 EXCEPT !.snapshot = [view |-> view, vg |-> vg,
                                            scale |-> s2.screen_scale]],
                   "take_snapshot")
        s4 == [s3 EXCEPT !.screen_scale = saved]
    IN  Call(Call(s4, "blit"), "view->damage")

\* Mutant of post_hook: a skipped frame is not counted.
post_hook_never_counts(s) ==
    IF s.current_preview = None THEN s
    ELSE IF s.drop_frame >= frame_skip
    THEN Capture([s EXCEPT !.drop_frame = 0])
    ELSE s

\* Mutant of post_hook: the callback does not look at current_preview.
post_hook_unguarded(s) ==
    IF s.drop_frame >= frame_skip
    THEN Capture([s EXCEPT !.drop_frame = 0])
    ELSE [s EXCEPT !.drop_frame = @ + 1]

\* Mutant of post_hook: the counter is compared with > instead of >=.
post_hook_off_by_one(s) ==
    IF s.current_preview = None THEN s
    ELSE IF s.drop_frame > frame_skip
    THEN Capture([s EXCEPT !.drop_frame = 0])
    ELSE [s EXCEPT !.drop_frame = @ + 1]

post_hook(s) ==
    IF s.current_preview = None THEN s
    ELSE IF s.drop_frame >= frame_skip
    THEN Capture([s EXCEPT !.drop_frame = 0])
    ELSE [s EXCEPT !.drop_frame = @ + 1]

\* region += -origin
Translate(region, origin) ==
    [region EXCEPT !.x = @ - origin.x, !.y = @ - origin.y]

\* render_target_t::framebuffer_region_from_geometry_region of the host, for
\* a target that is neither rotated nor offset: every box times the scale.
framebuffer_region_from_geometry_region(fb, region) ==
    [x |-> region.x * fb.scale, y |-> region.y * fb.scale,
     width |-> region.width * fb.scale, height |-> region.height * fb.scale]

\* Mutant of push_damage: the origin of the output is added to the region.
push_damage_adds_origin(s, region, fb) ==
    IF s.wo = None THEN s
    ELSE LET local == [region EXCEPT !.x = @ + fb.origin.x, !.y = @ + fb.origin.y]
             out   == framebuffer_region_from_geometry_region(fb, local)
         IN  [Deref(s, s.wo, "render->damage")
                EXCEPT !.damage = [from |-> region, fb |-> fb, region |-> out,
                                   repaint |-> TRUE]]

\* fb is what the host answers for wo: its layout origin and the scale of
\* its target framebuffer.  s.damage records the call wo->render->damage.
push_damage(s, region, fb) ==
    IF s.wo = None THEN s
    ELSE LET local == Translate(region, fb.origin)
             out   == framebuffer_region_from_geometry_region(fb, local)
         IN  [Deref(s, s.wo, "render->damage")
                EXCEPT !.damage = [from |-> region, fb |-> fb, region |-> out,
                                   repaint |-> TRUE]]

\* Mutant of view_unmapped: the handler does not compare the view with the
\* bound one.
view_unmapped_handler_any_view(s, view) ==
    LET s1 == Call([s EXCEPT !.view_unmapped = {}], "view_unmapped.disconnect")
        s2 == destroy_render_instance_manager(s1)
    IN  RemoveHooksIfSet([s2 EXCEPT !.current_preview = None], s2.wo)

\* Mutant of view_unmapped: the hooks stay on the output.
view_unmapped_handler_keeps_hooks(s, view) ==
    IF view # s.current_preview THEN s
    ELSE LET s1 == Call([s EXCEPT !.view_unmapped = {}], "view_unmapped.disconnect")
             s2 == destroy_render_instance_manager(s1)
         IN  [s2 EXCEPT !.current_preview = None]

view_unmapped_handler(s, view) ==
    IF view # s.current_preview THEN s
    ELSE LET s1 == Call([s EXCEPT !.view_unmapped = {}], "view_unmapped.disconnect")
             s2 == destroy_render_instance_manager(s1)
         IN  RemoveHooksIfSet([s2 EXCEPT !.current_preview = None], s2.wo)

(***************************************************************************)
(* The state machine of live-previews.cpp.                                 *)
(***************************************************************************)
\* No snapshot was taken; nothing was forwarded as damage.
NoScale == [m |-> <<>>, e |-> 0]

NoSnapshot == [view |-> None, vg |-> NoGeometry, scale |-> NoScale]

NoBox == [x |-> 0, y |-> 0, width |-> 0, height |-> 0]

NoDamage ==
    [from |-> NoBox, fb |-> [origin |-> [x |-> 0, y |-> 0], scale |-> 0],
     region |-> NoBox, repaint |-> FALSE]

\* The state a handler starts from.
St ==
    [ current_preview |-> current_preview, wo |-> wo, current_size |-> current_size,
      hooks_set |-> hooks_set, drop_frame |-> drop_frame,
      instance_manager |-> instance_manager, headless_backend |-> headless_backend,
      view_unmapped |-> view_unmapped, on_output_pre_remove |-> on_output_pre_remove,
      layout |-> layout, mode |-> mode, render_hooks |-> render_hooks,
      next_output |-> next_output, screen_scale |-> screen_scale,
      active_output |-> active_output, snapshot |-> NoSnapshot, damage |-> NoDamage,
      calls |-> <<>>, ret |-> None ]

UBCalls == {"UB:destroyed-output", "UB:destroyed-view"}

CrashCalls == {"CRASH:null-backend", "CRASH:null-output"}

Made(s, tags) == \E i \in 1..Len(s.calls) : s.calls[i] \in tags

\* The state a handler leaves: the one it computed, or a dead process when
\* it dereferenced null, or a freed object and the build does not survive that.
Outcome(s, ub) == Made(s, CrashCalls) \/ (Made(s, UBCalls) /\ ub = "crash")

\* The record of the callback that just ran; again says that the callback
\* before it was the same one with the same argument.
Last(op, arg, ret, calls) ==
    [op |-> op, arg |-> arg, ret |-> ret, calls |-> calls,
     again |-> (last.op = op /\ last.arg = arg),
     snapshot |-> NoSnapshot, damage |-> NoDamage]

Commit(s, ub, op, arg) ==
    IF Outcome(s, ub)
    THEN /\ crashed' = TRUE
         /\ last' = [Last(op, arg, "crash", s.calls) EXCEPT !.snapshot = s.snapshot,
                                                            !.damage = s.damage]
         /\ UNCHANGED <<sessionVars, layout, mode, render_hooks, next_output, seatVars>>
    ELSE /\ current_preview' = s.current_preview
         /\ wo' = s.wo
         /\ current_size' = s.current_size
         /\ hooks_set' = s.hooks_set
         /\ drop_frame' = s.drop_frame
         /\ instance_manager' = s.instance_manager
         /\ headless_backend' = s.headless_backend
         /\ view_unmapped' = s.view_unmapped
         /\ on_output_pre_remove' = s.on_output_pre_remove
         /\ layout' = s.layout
         /\ mode' = s.mode
         /\ render_hooks' = s.render_hooks
         /\ next_output' = s.next_output
         /\ screen_scale' = s.screen_scale
         /\ active_output' = s.active_output
         /\ crashed' = FALSE
         /\ last' = [Last(op, arg, s.ret, s.calls) EXCEPT !.snapshot = s.snapshot,
                                                        !.damage = s.damage]

\* handle->scale of a new wlr_output.
UnitScale == [num |-> 1, den |-> 1]

\* A value-initialised double, 0.0.
ZeroScale == [num |-> 0, den |-> 1]

\* The host when a plugin is loaded.
InitHostObjects ==
    /\ views = ViewIds
    /\ ticks = <<>>
    /\ awaiting_frame = FALSE
    /\ layout = {}
    /\ mode = [o \in OutputIds |-> NoMode]
    /\ next_output = CHOOSE o \in OutputIds : TRUE
    /\ max_dimension \in MaxDimensions
    /\ session_active = TRUE
    /\ output_scale = [o \in OutputIds |-> UnitScale]
    /\ headless_backend = FALSE
    /\ view_unmapped = {}
    /\ crashed = FALSE
    /\ active_output = Screen
    /\ last = [op |-> "init", arg |-> None, ret |-> None, calls |-> <<>>, again |-> FALSE,
               snapshot |-> NoSnapshot, damage |-> NoDamage]

InitHost ==
    /\ geometry \in [Toplevels -> Geometries]
    /\ nan_to_int = 0
    /\ screen_scale = NativeScale
    /\ InitHostObjects

\* The members of live_previews_plugin of live-previews.cpp after construction.
InitMainIdle ==
    /\ render_hooks = [o \in OutputIds |-> 0]
    /\ current_preview = None
    /\ wo = None
    /\ current_size = IndeterminateSize
    /\ hooks_set = [o \in OutputIds \cup {None} |-> FALSE]
    /\ drop_frame = Indeterminate
    /\ instance_manager = None
    /\ on_output_pre_remove = {}

\* The members of live_previews_plugin of part_001 after init().
InitSAFields ==
    /\ preview = [size |-> NoMode, output |-> None, view |-> None, down_scale |-> ZeroScale]
    /\ live_preview_render_node = None
    /\ idle_damage = None

InitScaleIdle == sc = [vg |-> NoGeometry, max |-> 0, main |-> NoMode, sa |-> NoMode, done |-> {}]

Init ==
    /\ InitHost
    /\ InitMainIdle
    /\ frame_skip \in 0..MaxFrameSkip
    /\ InitSAFields
    /\ InitScaleIdle

\* IPC method live_previews/request_stream.
RequestStream ==
    \E id \in RequestIds, accept \in BOOLEAN, host \in HostOutcomes, ub \in UBOutcomes :
        /\ ~crashed
        /\ Commit(request_stream(St, id, accept, host), ub, "request_stream", id)
        /\ UNCHANGED <<views, geometry, max_dimension, frame_skip, otherVars>>

\* IPC method live_previews/release_output.
ReleaseOutput ==
    \E ub \in UBOutcomes :
        /\ ~crashed
        /\ Commit(release_output(St), ub, "release_output", None)
        /\ UNCHANGED <<views, geometry, max_dimension, frame_skip, otherVars>>

\* The render manager of output o runs its pre-render effect hooks.
DamageHook ==
    \E o \in layout, ub \in UBOutcomes :
        /\ ~crashed
        /\ render_hooks[o] > 0
        /\ Commit(damage_hook(St), ub, "damage_hook", o)
        /\ UNCHANGED <<views, geometry, max_dimension, frame_skip, otherVars>>

\* The render manager of output o runs its post hooks.
PostHook ==
    \E o \in layout, ub \in UBOutcomes :
        /\ ~crashed
        /\ render_hooks[o] > 0
        /\ Commit(post_hook(St), ub, "post_hook", o)
        /\ UNCHANGED <<views, geometry, max_dimension, frame_skip, otherVars>>

\* The observed subtree reports damage: the render instance manager calls push_damage.
PushDamage ==
    \E region \in {WholeRegion}, fb \in {UnitFramebuffer}, ub \in UBOutcomes :
        /\ ~crashed
        /\ instance_manager # None
        /\ Commit(push_damage(St, region, fb), ub, "push_damage", instance_manager)
        /\ UNCHANGED <<views, geometry, max_dimension, frame_skip, otherVars>>

\* The host unmaps toplevel v: view_unmapped_signal, then the view is gone.
\* (The plugin never connects to a view of another kind.)
UnmapView ==
    \E v \in views \cap Toplevels, ub \in UBOutcomes :
        /\ ~crashed
        /\ LET s == IF v \in view_unmapped THEN view_unmapped_handler(St, v) ELSE St
           IN  Commit([s EXCEPT !.view_unmapped = @ \ {v}], ub, "view_unmapped", v)
        /\ views' = IF crashed' THEN views ELSE views \ {v}
        /\ geometry' = IF crashed' THEN geometry ELSE [geometry EXCEPT ![v] = NoGeometry]
        /\ UNCHANGED <<max_dimension, frame_skip, otherVars>>

\* The host maps a new view.  An id is reused only when the plugin holds no
\* reference to the view that had it, so the new view is fresh for the plugin.
MapView ==
    \E v \in Toplevels \ views, g \in Geometries :
        /\ ~crashed
        /\ v # current_preview /\ v # instance_manager /\ v \notin view_unmapped
        /\ views' = views \cup {v}
        /\ geometry' = [geometry EXCEPT ![v] = g]
        /\ last' = Last("map", v, None, <<>>)
        /\ UNCHANGED <<sessionVars, layout, mode, render_hooks, next_output,
                       max_dimension, frame_skip, crashed, seatVars, otherVars>>

\* A mapped toplevel is resized by its client or the user.
SetGeometry ==
    \E v \in views \cap Toplevels, g \in Geometries :
        /\ ~crashed
        /\ g # geometry[v]
        /\ geometry' = [geometry EXCEPT ![v] = g]
        /\ last' = Last("geometry", v, None, <<>>)
        /\ UNCHANGED <<views, sessionVars, layout, mode, render_hooks, next_output,
                       max_dimension, frame_skip, crashed, seatVars, otherVars>>

\* The host removes output o from the layout: output_pre_remove_signal on
\* the output, then the output is destroyed.
OutputPreRemove ==
    \E o \in layout, ub \in UBOutcomes :
        /\ ~crashed
        /\ LET s == IF o \in on_output_pre_remove
                    THEN on_output_pre_remove_handler(St) ELSE St
           IN  Commit([s EXCEPT !.layout = @ \ {o},
                                !.mode[o] = NoMode,
                                !.render_hooks[o] = 0,
                                !.on_output_pre_remove = @ \ {o},
                                !.active_output = IF @ = o THEN Screen ELSE @],
                      ub, "output_pre_remove", o)
        /\ UNCHANGED <<views, geometry, max_dimension, frame_skip, otherVars>>

Next ==
    \/ RequestStream
    \/ ReleaseOutput
    \/ DamageHook
    \/ PostHook
    \/ PushDamage
    \/ UnmapView
    \/ MapView
    \/ SetGeometry
    \/ OutputPreRemove

Spec == Init /\ [][Next]_vars

(***************************************************************************)
(* live-previews.cpp with toplevels that may have no extent.               *)
(***************************************************************************)
RequestableGeometries == DegenerateGeometries \cup {[width |-> 800, height |-> 600]}

InitDegenerate ==
    /\ geometry \in [Toplevels -> RequestableGeometries]
    /\ nan_to_int \in NaNToInt
    /\ screen_scale = NativeScale
    /\ InitHostObjects
    /\ InitMainIdle
    /\ frame_skip = 0
    /\ InitSAFields
    /\ InitScaleIdle

\* A toplevel gets or loses its extent.
SetDegenerateGeometry ==
    \E v \in views \cap Toplevels, g \in RequestableGeometries :
        /\ ~crashed
        /\ g # geometry[v]
        /\ geometry' = [geometry EXCEPT ![v] = g]
        /\ last' = Last("geometry", v, None, <<>>)
        /\ UNCHANGED <<views, sessionVars, layout, mode, render_hooks, next_output,
                       max_dimension, frame_skip, crashed, seatVars, otherVars>>

NextDegenerate ==
    \/ RequestStream
    \/ ReleaseOutput
    \/ UnmapView
    \/ OutputPreRemove
    \/ SetDegenerateGeometry

SpecDegenerate == InitDegenerate /\ [][NextDegenerate]_vars

(***************************************************************************)
(* live-previews.cpp with its frames observed: ticks records, for the      *)
(* stream that is running, which of the latest frame_skip + 1 ticks of     *)
(* post_hook ran the capture.  Every other callback starts the record anew.*)
(***************************************************************************)
\* The last n elements of sequence q.
LastN(q, n) == IF Len(q) <= n THEN q ELSE SubSeq(q, Len(q) - n + 1, Len(q))

FramesTick ==
    \E o \in layout, ub \in UBOutcomes :
        /\ ~crashed
        /\ render_hooks[o] > 0
        /\ LET s == post_hook(St) IN
           /\ Commit(s, ub, "post_hook", o)
           /\ ticks' = IF crashed' THEN ticks
                       ELSE LastN(Append(ticks, Made(s, {"take_snapshot"})), frame_skip + 1)
           /\ awaiting_frame' = (crashed' /\ awaiting_frame)
        /\ UNCHANGED <<views, geometry, max_dimension, frame_skip, saOnlyVars, sc, nan_to_int>>

FramesRequestStream ==
    \E id \in RequestIds, accept \in BOOLEAN, host \in HostOutcomes, ub \in UBOutcomes :
        /\ ~crashed
        /\ Commit(request_stream(St, id, accept, host), ub, "request_stream", id)
        /\ ticks' = <<>>
        /\ awaiting_frame' = IF ~crashed' /\ last'.ret = "ok" THEN TRUE ELSE awaiting_frame
        /\ UNCHANGED <<views, geometry, max_dimension, frame_skip, saOnlyVars, sc, nan_to_int>>

FramesReleaseOutput ==
    \E ub \in UBOutcomes :
        /\ ~crashed
        /\ Commit(release_output(St), ub, "release_output", None)
        /\ ticks' = <<>>
        /\ UNCHANGED awaiting_frame
        /\ UNCHANGED <<views, geometry, max_dimension, frame_skip, saOnlyVars, sc, nan_to_int>>

FramesUnmapView ==
    \E v \in views \cap Toplevels, ub \in UBOutcomes :
        /\ ~crashed
        /\ LET s == IF v \in view_unmapped THEN view_unmapped_handler(St, v) ELSE St
           IN  Commit([s EXCEPT !.view_unmapped = @ \ {v}], ub, "view_unmapped", v)
        /\ views' = IF crashed' THEN views ELSE views \ {v}
        /\ geometry' = IF crashed' THEN geometry ELSE [geometry EXCEPT ![v] = NoGeometry]
        /\ ticks' = <<>>
        /\ UNCHANGED awaiting_frame
        /\ UNCHANGED <<max_dimension, frame_skip, saOnlyVars, sc, nan_to_int>>

FramesOutputPreRemove ==
    \E o \in layout, ub \in UBOutcomes :
        /\ ~crashed
        /\ LET s == IF o \in on_output_pre_remove
                    THEN on_output_pre_remove_handler(St) ELSE St
           IN  Commit([s EXCEPT !.layout = @ \ {o},
                                !.mode[o] = NoMode,
                                !.render_hooks[o] = 0,
                                !.on_output_pre_remove = @ \ {o},
                                !.active_output = IF @ = o THEN Screen ELSE @],
                      ub, "output_pre_remove", o)
        /\ ticks' = <<>>
        /\ UNCHANGED awaiting_frame
        /\ UNCHANGED <<views, geometry, max_dimension, frame_skip, saOnlyVars, sc, nan_to_int>>

NextFrames ==
    \/ FramesTick
    \/ FramesRequestStream
    \/ FramesReleaseOutput
    \/ FramesUnmapView
    \/ FramesOutputPreRemove

SpecFrames == Init /\ [][NextFrames]_vars

(***************************************************************************)
(* live-previews.cpp with its callbacks exercised: the screen has any of   *)
(* its scales, the seat's focus moves, damage arrives with any region for  *)
(* any placement of the output, and the two render callbacks are also      *)
(* entered when nothing is registered, so that their guards are reached.   *)
(***************************************************************************)
InitRender ==
    /\ geometry \in [Toplevels -> Geometries]
    /\ nan_to_int = 0
    /\ screen_scale \in ScreenScales
    /\ InitHostObjects
    /\ InitMainIdle
    /\ frame_skip = 1
    /\ InitSAFields
    /\ InitScaleIdle

\* post_hook is entered although no output has it registered.
LateTick ==
    \E ub \in UBOutcomes :
        /\ ~crashed
        /\ \A o \in layout : render_hooks[o] = 0
        /\ Commit(post_hook(St), ub, "late_tick", None)
        /\ UNCHANGED <<views, geometry, max_dimension, frame_skip, otherVars>>

\* push_damage is entered, with a render instance manager or without.
DamageCallback ==
    \E region \in Regions, fb \in Framebuffers, ub \in UBOutcomes :
        /\ ~crashed
        /\ Commit(push_damage(St, region, fb), ub, "damage_callback", instance_manager)
        /\ UNCHANGED <<views, geometry, max_dimension, frame_skip, otherVars>>

\* The seat's focus moves to another output.
FocusOutput ==
    \E o \in layout \cup {Screen} :
        /\ ~crashed
        /\ o # active_output
        /\ active_output' = o
        /\ last' = Last("focus_output", o, None, <<>>)
        /\ UNCHANGED <<views, geometry, sessionVars, layout, mode, render_hooks, next_output,
                       max_dimension, frame_skip, crashed, screen_scale, otherVars>>

NextRender ==
    \/ RequestStream
    \/ ReleaseOutput
    \/ PostHook
    \/ LateTick
    \/ DamageCallback
    \/ FocusOutput
    \/ UnmapView
    \/ OutputPreRemove

SpecRender == InitRender /\ [][NextRender]_vars

(***************************************************************************)
(* live-previews.cpp with frames that keep coming: damage_hook schedules a *)
(* redraw in every frame of an output that has the hooks, so the render    *)
(* manager runs post_hook again and again for as long as it is registered. *)
(***************************************************************************)
InitLive ==
    /\ geometry = [v \in Toplevels |-> IF v = "A" THEN [width |-> 800, height |-> 600]
                                                 ELSE [width |-> 600, height |-> 800]]
    /\ nan_to_int = 0
    /\ screen_scale = NativeScale
    /\ InitHostObjects
    /\ InitMainIdle
    /\ frame_skip \in 0..MaxFrameSkip
    /\ InitSAFields
    /\ InitScaleIdle

NextLive ==
    \/ RequestStream
    \/ ReleaseOutput
    \/ DamageHook
    \/ PostHook
    \/ UnmapView
    \/ OutputPreRemove

SpecLive == InitLive /\ [][NextLive]_vars /\ WF_vars(PostHook)

(***************************************************************************)
(* The session-aware plugin of src/unnamed/part_001.  Its handlers work on *)
(* a state s of their own fields (preview, live_preview_render_node,       *)
(* idle_damage) and the host objects they touch.                           *)
(***************************************************************************)
\* Scaling in request_stream of part_001: double precision.
\*     auto scale = vg.height / double(vg.width); vg.height = max_dimension * scale;
ScaledSizeSA(vg, max) ==
    IF vg.width > vg.height
    THEN [width  |-> max,
          height |-> FloatToInt(FloatMul(max,
                        FloatDiv(vg.height, vg.width, DoubleMantissaBits), DoubleMantissaBits))]
    ELSE [width  |-> FloatToInt(FloatMul(max,
                        FloatDiv(vg.width, vg.height, DoubleMantissaBits), DoubleMantissaBits)),
          height |-> max]

\* preview.down_scale = max_dimension / double(longer side), kept as a fraction.
DownScale(vg, max) ==
    [num |-> max, den |-> IF vg.width > vg.height THEN vg.width ELSE vg.height]

ScaleTableSA ==
    { [vg |-> g, max |-> m, size |-> ScaledSizeSA(g, m)] :
        g \in Geometries, m \in MaxDimensions }

TargetSizeSA(vg, max) == (CHOOSE t \in ScaleTableSA : t.vg = vg /\ t.max = max).size

\* if (live_preview_render_node) { remove_child; reset; = nullptr; }
RemoveRenderNode(s) ==
    IF s.live_preview_render_node = None THEN s
    ELSE Call([s EXCEPT !.live_preview_render_node = None], "remove_child")

\* add_simple_node(&preview): a node in front of the LOCK layer of preview.output.
add_simple_node(s) ==
    [Deref(s, s.preview.output, "add_front")
        EXCEPT !.live_preview_render_node = s.preview.output]

\* preview.output->handle->scale = preview.down_scale;
SetOutputScale(s) ==
    IF s.preview.output = None THEN Call(s, "CRASH:null-output")
    ELSE LET t == Deref(s, s.preview.output, "handle->scale =")
         IN  IF s.preview.output \in s.layout
             THEN [t EXCEPT !.output_scale[s.preview.output] = s.preview.down_scale]
             ELSE t

sa_destroy_output(s) ==
    LET output == find_output(s) IN
    IF output = None THEN s
    ELSE LET s1 == Call([s EXCEPT !.preview.view = None, !.view_unmapped = {}],
                        "view_unmapped.disconnect")
             s2 == RemoveRenderNode(s1)
             s3 == Call(Call(s2, "wlr_output_layout_remove"), "wlr_output_destroy")
             s4 == [s3 EXCEPT !.layout = @ \ {output},
                              !.mode[output] = NoMode,
                              !.output_scale[output] = UnitScale]
         IN  IF output = s4.preview.output THEN [s4 EXCEPT !.preview.output = None] ELSE s4

\* The damage calls and the deferred damage task that end request_stream.
DamageAndDefer(s, view) ==
    LET s1 == Call(s, "view->get_output()->render->damage_whole")
        s2 == Deref(s1, s1.preview.output, "damage_whole")
        s3 == Call(s2, "view->damage")
    IN  Call([s3 EXCEPT !.idle_damage = view], "idle_damage.run_once")

\* part_001 lines 246-269.
sa_BindToOutput(s, view) ==
    LET s1 == RemoveRenderNode(s)
        s2 == add_simple_node([s1 EXCEPT !.preview.view = view])
        s3 == Call([s2 EXCEPT !.view_unmapped = @ \cup {view}], "view->connect")
    IN  Returns(DamageAndDefer(s3, view), "ok")

\* part_001 lines 271-315.
sa_CreateOutput(s, view, vg, host) ==
    LET s1 == IF s.headless_backend THEN s
              ELSE IF host = "no_backend"
              THEN Call(Call(s, "wlr_headless_backend_create"), "CRASH:null-backend")
              ELSE Call([s EXCEPT !.headless_backend = TRUE], "wlr_headless_backend_create")
        new == s.next_output
        s2 == IF host = "no_output"
              THEN Call(Call(s1, "wlr_headless_add_output"), "CRASH:null-output")
              ELSE Call([s1 EXCEPT !.layout = @ \cup {new},
                                   !.mode[new] = vg,
                                   !.output_scale[new] = UnitScale,
                                   !.next_output = OtherOutput(new),
                                   !.preview.output = new],
                        "wlr_headless_add_output")
        s3 == RemoveRenderNode(SetOutputScale(s2))
        s4 == add_simple_node([s3 EXCEPT !.preview.view = view])
        s5 == Call([s4 EXCEPT !.view_unmapped = @ \cup {view}], "view->connect")
    IN  Returns(DamageAndDefer(s5, view), "ok")

\* part_001 lines 225-244; accept is the answer of wlr_output_test_state.
sa_ApplySize(s, vg, accept) ==
    IF vg = s.preview.size THEN s
    ELSE LET s1 == [s EXCEPT !.preview.size = vg] IN
         IF s1.preview.output = None THEN s1
         ELSE LET o  == s1.preview.output
                  s2 == Deref(s1, o, "wlr_output_test_state")
                  s3 == IF accept
                        THEN LET c == Deref(s2, o, "wlr_output_commit_state")
                             IN  IF o \in c.layout THEN [c EXCEPT !.mode[o] = vg] ELSE c
                        ELSE sa_destroy_output(s2)
              IN  SetOutputScale(s3)

sa_request_stream(s, id, accept, host) ==
    IF id \notin views THEN Returns(s, "no such view")
    ELSE IF id \notin Toplevels THEN Returns(s, "view is not a toplevel")
    ELSE LET vg == TargetSizeSA(geometry[id], max_dimension)
             s0 == [s EXCEPT !.preview.down_scale = DownScale(geometry[id], max_dimension)]
             s1 == sa_ApplySize(s0, vg, accept)
         IN  IF s1.preview.output # None THEN sa_BindToOutput(s1, id)
             ELSE sa_CreateOutput(s1, id, vg, host)

sa_release_output(s) ==
    LET s1 == RemoveRenderNode(s)
    IN  Returns(Call([s1 EXCEPT !.view_unmapped = {}], "view_unmapped.disconnect"), "ok")

sa_view_unmapped_handler(s, view) ==
    IF view # s.preview.view THEN s ELSE sa_destroy_output(s)

\* Mutant of the on_session_active callback: the test of session->active is inverted.
on_session_active_inverted(s, active) ==
    IF active THEN sa_destroy_output(s) ELSE s

\* The callback init() sets on on_session_active; active is session->active.
on_session_active_callback(s, active) ==
    IF ~active THEN sa_destroy_output(s) ELSE s

\* The closure request_stream hands to idle_damage.run_once, run by the event loop.
idle_damage_callback(s) ==
    LET view == s.idle_damage
        s1 == IF view \in views THEN s ELSE Call(s, "UB:destroyed-view")
        s2 == Call(s1, "view->get_output()->render->damage_whole")
        s3 == IF s2.preview.output = None THEN Call(s2, "CRASH:null-output")
              ELSE Deref(s2, s2.preview.output, "damage_whole")
    IN  Call([s3 EXCEPT !.idle_damage = None], "view->damage")

(***************************************************************************)
(* The state machine of part_001.                                          *)
(***************************************************************************)
StSA ==
    [ preview |-> preview, live_preview_render_node |-> live_preview_render_node,
      idle_damage |-> idle_damage, headless_backend |-> headless_backend,
      view_unmapped |-> view_unmapped, layout |-> layout, mode |-> mode,
      output_scale |-> output_scale, next_output |-> next_output,
      calls |-> <<>>, ret |-> None ]

saSessionVars ==
    <<preview, live_preview_render_node, idle_damage, headless_backend, view_unmapped>>

saHostVars == <<layout, mode, output_scale, next_output>>

CommitSA(s, ub, op, arg) ==
    IF Outcome(s, ub)
    THEN /\ crashed' = TRUE
         /\ last' = Last(op, arg, "crash", s.calls)
         /\ UNCHANGED <<saSessionVars, saHostVars>>
    ELSE /\ preview' = s.preview
         /\ live_preview_render_node' = s.live_preview_render_node
         /\ idle_damage' = s.idle_damage
         /\ headless_backend' = s.headless_backend
         /\ view_unmapped' = s.view_unmapped
         /\ layout' = s.layout
         /\ mode' = s.mode
         /\ output_scale' = s.output_scale
         /\ next_output' = s.next_output
         /\ crashed' = FALSE
         /\ last' = Last(op, arg, s.ret, s.calls)

\* init() of part_001, with a host session present.
InitSA ==
    /\ InitHost
    /\ InitMainIdle
    /\ frame_skip = 0
    /\ InitSAFields
    /\ InitScaleIdle

SARequestStream ==
    \E id \in RequestIds, accept \in BOOLEAN, host \in HostOutcomes, ub \in UBOutcomes :
        /\ ~crashed
        /\ CommitSA(sa_request_stream(StSA, id, accept, host), ub, "request_stream", id)
        /\ UNCHANGED <<views, geometry, max_dimension, session_active, mainOnlyVars, sc>>

SAReleaseOutput ==
    \E ub \in UBOutcomes :
        /\ ~crashed
        /\ CommitSA(sa_release_output(StSA), ub, "release_output", None)
        /\ UNCHANGED <<views, geometry, max_dimension, session_active, mainOnlyVars, sc>>

\* The host session changes to active or inactive: the session's active signal.
SASessionActive ==
    \E ub \in UBOutcomes :
        /\ ~crashed
        /\ CommitSA(on_session_active_callback(StSA, ~session_active), ub, "session_active",
                    IF session_active THEN "inactive" ELSE "active")
        /\ session_active' = IF crashed' THEN session_active ELSE ~session_active
        /\ UNCHANGED <<views, geometry, max_dimension, mainOnlyVars, sc>>

\* The event loop runs the deferred damage task.
SAIdleDamage ==
    \E ub \in UBOutcomes :
        /\ ~crashed
        /\ idle_damage # None
        /\ CommitSA(idle_damage_callback(StSA), ub, "idle_damage", idle_damage)
        /\ UNCHANGED <<views, geometry, max_dimension, session_active, mainOnlyVars, sc>>

SAUnmapView ==
    \E v \in views \cap Toplevels, ub \in UBOutcomes :
        /\ ~crashed
        /\ LET s == IF v \in view_unmapped THEN sa_view_unmapped_handler(StSA, v) ELSE StSA
           IN  CommitSA([s EXCEPT !.view_unmapped = @ \ {v}], ub, "view_unmapped", v)
        /\ views' = IF crashed' THEN views ELSE views \ {v}
        /\ geometry' = IF crashed' THEN geometry ELSE [geometry EXCEPT ![v] = NoGeometry]
        /\ UNCHANGED <<max_dimension, session_active, mainOnlyVars, sc>>

SAMapView ==
    \E v \in Toplevels \ views, g \in Geometries :
        /\ ~crashed
        /\ v # preview.view /\ v # idle_damage /\ v \notin view_unmapped
        /\ views' = views \cup {v}
        /\ geometry' = [geometry EXCEPT ![v] = g]
        /\ last' = Last("map", v, None, <<>>)
        /\ UNCHANGED <<saSessionVars, saHostVars, max_dimension, session_active,
                       crashed, mainOnlyVars, sc>>

SASetGeometry ==
    \E v \in views \cap Toplevels, g \in Geometries :
        /\ ~crashed
        /\ g # geometry[v]
        /\ geometry' = [geometry EXCEPT ![v] = g]
        /\ last' = Last("geometry", v, None, <<>>)
        /\ UNCHANGED <<views, saSessionVars, saHostVars, max_dimension, session_active,
                       crashed, mainOnlyVars, sc>>

\* The host removes output o from the layout and destroys it; part_001
\* subscribes to no output signal, so its fields stay as they are.
SAOutputRemoved ==
    \E o \in layout :
        /\ ~crashed
        /\ layout' = layout \ {o}
        /\ mode' = [mode EXCEPT ![o] = NoMode]
        /\ output_scale' = [output_scale EXCEPT ![o] = UnitScale]
        /\ last' = Last("output_removed", o, None, <<>>)
        /\ UNCHANGED <<views, geometry, saSessionVars, next_output, max_dimension,
                       session_active, crashed, mainOnlyVars, sc>>

NextSA ==
    \/ SARequestStream
    \/ SAReleaseOutput
    \/ SASessionActive
    \/ SAIdleDamage
    \/ SAUnmapView
    \/ SAMapView
    \/ SASetGeometry
    \/ SAOutputRemoved

SpecSA == InitSA /\ [][NextSA]_vars

(***************************************************************************)
(* The scaling of request_stream on its own: SpecScale draws a geometry    *)
(* and a max_dimension and applies the computation of both plugins.        *)
(***************************************************************************)
MaxSide == 12

ScaleMaxima == {31, 90, 256}

ScaleGeometries ==
    [width : 1..MaxSide, height : 1..MaxSide] \cup Geometries

InitScale ==
    /\ InitHost
    /\ InitMainIdle
    /\ frame_skip = 0
    /\ InitSAFields
    /\ InitScaleIdle

\* A client asks for a window of geometry vg under the option value max.
ScaleInput ==
    \E g \in ScaleGeometries, m \in ScaleMaxima :
        /\ sc' = [vg |-> g, max |-> m, main |-> NoMode, sa |-> NoMode, done |-> {}]
        /\ UNCHANGED <<mainVars, saOnlyVars, nan_to_int, ticks, awaiting_frame>>

\* live-previews.cpp lines 113-123.
ScaleMain ==
    /\ sc.max > 0
    /\ "main" \notin sc.done
    /\ sc' = [sc EXCEPT !.main = ScaledSize(sc.vg, sc.max), !.done = @ \cup {"main"}]
    /\ UNCHANGED <<mainVars, saOnlyVars, nan_to_int, ticks, awaiting_frame>>

\* part_001 lines 210-223.
ScaleSA ==
    /\ sc.max > 0
    /\ "sa" \notin sc.done
    /\ sc' = [sc EXCEPT !.sa = ScaledSizeSA(sc.vg, sc.max), !.done = @ \cup {"sa"}]
    /\ UNCHANGED <<mainVars, saOnlyVars, nan_to_int, ticks, awaiting_frame>>

NextScale ==
    \/ ScaleInput
    \/ ScaleMain
    \/ ScaleSA

SpecScale == InitScale /\ [][NextScale]_vars

(***************************************************************************)
(* Properties of live-previews.cpp (checked under Spec).                   *)
(***************************************************************************)
Errors == {"no such view", "view is not a toplevel"}

Did(op) == last.op = op /\ ~crashed

\* The session streams window b: b is bound, the render instance manager
\* observes b, the hooks are registered on the surface wo refers to, and
\* that surface is in the layout.
StreamingFor(b) ==
    /\ current_preview = b
    /\ instance_manager = b
    /\ wo # None
    /\ wo \in layout
    /\ hooks_set[wo]
    /\ render_hooks[wo] >= 1

\* Nothing of a stream is left: no bridge, no hooks, no bound window.
Unbound ==
    /\ current_preview = None
    /\ instance_manager = None
    /\ \A o \in OutputIds : ~hooks_set[o] /\ render_hooks[o] = 0

\* C1: a request_stream(B) that returns Ok leaves the session streaming
\* exactly B on a live surface, whatever state it was called in.
C1_RequestStreamsOnLiveSurface ==
    (Did("request_stream") /\ last.ret = "ok") => StreamingFor(last.arg)

\* C2: at most one synthetic surface exists; a callback creates a surface
\* only when the session holds none (it held none before, or the callback
\* destroyed the one it held first), and the session then refers to the new
\* one; the session's reference is cleared only once the surface it
\* referred to is out of the layout.
C2_SingleSurface ==
    /\ [](Cardinality(layout) <= 1)
    /\ [][((layout' \ layout) # {}) =>
             /\ wo = None \/ wo \notin layout'
             /\ layout \cap layout' = {}
             /\ wo' \in layout' \ layout]_vars
    /\ [][(wo # None /\ wo' = None) => (wo \notin layout')]_vars

C2_Witness ==
    /\ Did("request_stream") /\ last.ret = "ok"
    /\ Made(last, {"wlr_output_destroy"}) /\ Made(last, {"wlr_headless_add_output"})
    /\ Cardinality(layout) = 1

\* C3: request_stream of an id that resolves to no view returns the error
\* "no such view", of a view that is no toplevel the error "view is not a
\* toplevel", and an erroneous request changes no field of the session and
\* nothing on the host.
C3_ErrorsChangeNothing ==
    [][(last'.op = "request_stream" /\ ~crashed') =>
          /\ (last'.arg \notin views) <=> (last'.ret = "no such view")
          /\ (last'.arg \in views \ Toplevels) <=> (last'.ret = "view is not a toplevel")
          /\ (last'.ret \in Errors) =>
                UNCHANGED <<sessionVars, layout, mode, render_hooks, next_output>>]_vars

C3_Witness ==
    /\ Did("request_stream")
    /\ last.ret = "view is not a toplevel"
    /\ \E b \in Toplevels : StreamingFor(b)
    /\ drop_frame # frame_skip

\* C4: after release_output no window is bound, the bridge is unbound and
\* the hooks are removed.
C4_ReleaseUnbinds ==
    (Did("release_output") /\ last.ret = "ok") => Unbound

\* C5: a release_output that directly follows a release_output returns Ok
\* and changes nothing.
C5_SecondReleaseNoOp ==
    [][(last.op = "release_output" /\ last'.op = "release_output") =>
          /\ ~crashed' /\ last'.ret = "ok"
          /\ UNCHANGED <<sessionVars, layout, mode, render_hooks, next_output>>]_vars

C5_Witness ==
    /\ Did("release_output") /\ last.again /\ last.ret = "ok"
    /\ wo \in layout /\ current_preview # None

\* C6: after the bound window was unmapped, the next request_stream of
\* another window succeeds on a fresh surface: the surface that existed when
\* the window was unmapped is destroyed, and nothing is bound to the
\* unmapped window any more.
C6_FreshSurfaceAfterUnmap ==
    [][(/\ last.op = "view_unmapped" /\ Made(last, {"view_unmapped.disconnect"})
        /\ wo \in layout
        /\ last'.op = "request_stream" /\ last'.arg # last.arg
        /\ last'.arg \in views \cap Toplevels)
       => (/\ last'.ret = "ok"
           /\ current_preview' = last'.arg /\ instance_manager' = last'.arg
           /\ wo' \in layout' /\ hooks_set'[wo'] /\ render_hooks'[wo'] >= 1
           /\ wo' # wo /\ wo \notin layout'
           /\ last.arg \notin view_unmapped')]_vars

\* C7: after output-pre-remove for the synthetic surface nothing is bound
\* and the session holds no reference to the removed surface.
C7_OutputRemovalUnwinds ==
    Did("output_pre_remove") => (Unbound /\ wo = None)

\* C9 (as claimed): no surface exists after release_output, and a surface
\* exists only while a window is streamed.
C9_NoSurfaceAfterRelease ==
    /\ (Did("release_output") /\ last.ret = "ok") => layout = {}
    /\ layout # {} => \E b \in Toplevels : StreamingFor(b)

\* C9 (amended): release_output keeps the surface warm: it neither destroys
\* nor creates a surface and leaves the session's surface reference as it
\* was; and while the bridge is bound the session holds a surface reference.
C9_ReleaseKeepsSurface ==
    /\ [](instance_manager # None => wo # None)
    /\ [][(last'.op = "release_output" /\ ~crashed') =>
             (layout' = layout /\ wo' = wo /\ mode' = mode)]_vars

C9_Witness ==
    /\ Did("release_output") /\ ~last.again
    /\ Made(last, {"instance_manager.reset"}) /\ Made(last, {"rem_post"})
    /\ wo \in layout

\* Host calls that resize, create or destroy a surface.
SurfaceCalls ==
    {"wlr_output_test_state", "wlr_output_commit_state", "wlr_headless_backend_create",
     "wlr_headless_add_output", "wlr_output_layout_remove", "wlr_output_destroy"}

\* C12: a request_stream that directly follows a successful request_stream
\* of the same window (whose geometry therefore has not changed) returns Ok
\* without a mode test or commit and without creating or destroying a
\* surface: the same surface, at the same size, stays in use.
C12_RepeatedRequestKeepsSize ==
    [][(/\ last.op = "request_stream" /\ last.ret = "ok"
        /\ last'.op = "request_stream" /\ last'.arg = last.arg)
       => (/\ ~crashed' /\ last'.ret = "ok"
           /\ ~Made(last', SurfaceCalls)
           /\ wo' = wo /\ layout' = layout /\ mode' = mode
           /\ current_size' = current_size)]_vars

C12_Witness ==
    /\ Did("request_stream") /\ last.again /\ last.ret = "ok"
    /\ StreamingFor(last.arg)
    /\ mode[wo] = current_size
    /\ ~Made(last, SurfaceCalls)

\* tag a is called before tag b in the calls of record r.
CalledBefore(r, a, b) ==
    \E i, j \in 1..Len(r.calls) : i < j /\ r.calls[i] = a /\ r.calls[j] = b

\* The host rejected the mode that request_stream just tested.
ModeRejected(r) ==
    Made(r, {"wlr_output_test_state"}) /\ ~Made(r, {"wlr_output_commit_state"})

\* C13: when request_stream needs a new size while a surface exists and the
\* host rejects the mode test, the call unwinds and destroys that surface
\* and then, the host providing a new one, creates a surface at the new
\* size; it returns Ok and the session streams the requested window on the
\* new surface.
C13_RejectedResizeRecreates ==
    [][(/\ last'.op = "request_stream" /\ ~crashed'
        /\ wo # None /\ wo \in layout
        /\ ModeRejected(last'))
       => (/\ wo \notin layout' /\ render_hooks'[wo] = 0 /\ ~hooks_set'[wo]
           /\ wo \notin on_output_pre_remove'
           /\ Made(last', {"view_unmapped.disconnect"})
           /\ Made(last', {"on_output_pre_remove.disconnect"})
           /\ CalledBefore(last', "wlr_output_destroy", "wlr_headless_add_output")
           /\ last'.ret = "ok"
           /\ wo' # wo /\ wo' \in layout' /\ Cardinality(layout') = 1
           /\ current_preview' = last'.arg /\ instance_manager' = last'.arg
           /\ hooks_set'[wo'] /\ render_hooks'[wo'] >= 1
           /\ view_unmapped' = {last'.arg}
           /\ on_output_pre_remove' = {wo'}
           /\ current_size' = TargetSize(geometry[last'.arg], max_dimension)
           /\ mode'[wo'] = current_size')]_vars

C13_Witness ==
    /\ Did("request_stream") /\ last.ret = "ok"
    /\ ModeRejected(last)
    /\ CalledBefore(last, "rem_post", "wlr_output_destroy")
    /\ CalledBefore(last, "wlr_output_destroy", "wlr_headless_add_output")
    /\ StreamingFor(last.arg) /\ mode[wo] = current_size

\* The host gave request_stream no headless backend, or no output.
HostRefused(r) == Made(r, CrashCalls)

\* C14: when the host provides no headless backend or no synthetic surface,
\* request_stream returns an error to the caller instead of dereferencing
\* the missing object, and leaves the session without surface and without
\* bound window.
C14_HostRefusalIsAnError ==
    (last.op = "request_stream" /\ HostRefused(last)) =>
        /\ ~crashed
        /\ last.ret \notin {"ok", "crash", None}
        /\ wo = None /\ current_preview = None

\* C16: after a successful request_stream(B) the session holds no
\* subscription on any other window: the render instance manager observes
\* B and the view_unmapped connection is connected to B only.
C16_NoSubscriptionOnOldWindow ==
    (Did("request_stream") /\ last.ret = "ok") =>
        /\ instance_manager = last.arg
        /\ view_unmapped = {last.arg}

\* C17: the unmap of a window that is not the bound one, a window bound
\* earlier and superseded included, changes nothing of the session: bound
\* window, surface, size, hooks, bridge and the subscriptions on the bound
\* window and on the surface stay as they were.
C17_UnmapOfOtherWindowChangesNothing ==
    [][(last'.op = "view_unmapped" /\ last'.arg # current_preview) =>
          /\ ~crashed' /\ last'.calls = <<>>
          /\ UNCHANGED <<current_preview, wo, current_size, hooks_set, drop_frame,
                         instance_manager, headless_backend, on_output_pre_remove,
                         layout, mode, render_hooks, next_output>>
          /\ view_unmapped' = view_unmapped \ {last'.arg}]_vars

C17_Witness ==
    /\ Did("view_unmapped")
    /\ last.arg \notin views
    /\ \E b \in Toplevels : b # last.arg /\ StreamingFor(b) /\ b \in view_unmapped
    /\ drop_frame # frame_skip

\* C18: the session holds no reference to a window it is not subscribed to:
\* a bound window is one the view_unmapped connection is connected to.
C18_BoundWindowIsSubscribed ==
    current_preview # None => current_preview \in view_unmapped

\* C19: while the render instance manager exists, the session's surface
\* reference is set and the surface it refers to is in the layout.
C19_BridgeOnLiveSurface ==
    instance_manager # None => (wo # None /\ wo \in layout)

\* C20: whenever post_hook is registered on an output, a window is bound.
C20_HookImpliesBoundWindow ==
    \A o \in OutputIds :
        (render_hooks[o] > 0 \/ (hooks_set[o] /\ o \in layout)) => current_preview # None

C20_Witness ==
    /\ Did("view_unmapped") /\ Made(last, {"rem_post"})
    /\ current_preview = None
    /\ wo \in layout /\ render_hooks[wo] = 0

C25_RequestResetsCounterToZero ==
    (Did("request_stream") /\ last.ret = "ok") => drop_frame = 0

\* C25 as the code has it: immediately after every successful
\* request_stream the drop counter equals frame_skip, so that the next tick
\* captures.
C25_RequestSetsCounterToFrameSkip ==
    (Did("request_stream") /\ last.ret = "ok") => drop_frame = frame_skip

C25_Witness ==
    /\ Did("request_stream") /\ last.ret = "ok"
    /\ last.again
    /\ frame_skip = MaxFrameSkip
    /\ drop_frame = frame_skip

\* C26: from the first request on, the drop counter is within
\* 0..frame_skip in every reachable state.
C26_CounterInRange ==
    drop_frame # Indeterminate => drop_frame \in 0..frame_skip

\* The counter at its upper end, at its lower end after a capture, and in between.
C26_Witness ==
    /\ Did("post_hook")
    /\ frame_skip = MaxFrameSkip
    /\ drop_frame = frame_skip - 1

(***************************************************************************)
(* Properties of the render callbacks, checked under SpecRender.           *)
(***************************************************************************)
\* A step of post_hook, registered or not.
Ticked(r) == r.op \in {"post_hook", "late_tick"}

\* C21: a post-render tick that arrives while no window is bound does
\* nothing: it makes no host call (no damage, snapshot or blit), changes no
\* scale, raises no error, and leaves the drop counter and every other field
\* of the session as they were.
C21_TickWithoutWindowDoesNothing ==
    [][(current_preview = None /\ Ticked(last'))
        => /\ last'.calls = <<>>
           /\ last'.snapshot = NoSnapshot
           /\ last'.ret = None
           /\ ~crashed'
           /\ drop_frame' = drop_frame
           /\ UNCHANGED <<sessionVars, layout, mode, render_hooks, next_output,
                          seatVars>>]_vars

\* A tick found a live surface, no bound window and a counter that the
\* frame-skip branch would have incremented.
C21_Witness ==
    /\ last.op = "late_tick"
    /\ current_preview = None
    /\ wo \in layout
    /\ drop_frame = 0 /\ drop_frame < frame_skip
    /\ last.calls = <<>>

\* max_dimension / max(w, h) as a float, for the geometries and options explored.
DeviceScaleTable ==
    { [vg |-> g, max |-> m,
       scale |-> FloatDiv(m, IF g.width > g.height THEN g.width ELSE g.height,
                          FloatMantissaBits)] :
        g \in Geometries, m \in MaxDimensions }

DeviceScale(vg, max) == (CHOOSE t \in DeviceScaleTable : t.vg = vg /\ t.max = max).scale

\* A tick that took a snapshot of a live window.
Snapshotted(r) == Ticked(r) /\ r.snapshot # NoSnapshot /\ r.snapshot.vg \in Geometries

\* C22: the device scale in effect while a capture takes its snapshot is
\* max_dimension / max(w, h) of the source window's geometry, whether the
\* window is landscape, square or portrait.
C22_CaptureScaleUsesLongerSide ==
    Snapshotted(last)
        => last.snapshot.scale = DeviceScale(last.snapshot.vg, max_dimension)

\* The same for windows that are at least as wide as they are high.
C22_LandscapeCaptureScale ==
    (Snapshotted(last) /\ last.snapshot.vg.width >= last.snapshot.vg.height)
        => last.snapshot.scale = DeviceScale(last.snapshot.vg, max_dimension)

C22_LandscapeWitness ==
    /\ Snapshotted(last)
    /\ last.snapshot.vg = [width |-> 800, height |-> 600]
    /\ last.snapshot.scale = DeviceScale(last.snapshot.vg, max_dimension)

\* C23: a capture pass leaves the scale of the source window's output as it
\* found it; the temporary scale max_dimension / float(vg.width) is in
\* effect while the snapshot is taken and only then, so every pass starts
\* from a scale of the screen itself, never from the temporary scale of
\* another capture.
C23_CaptureRestoresScale ==
    [][( /\ (Snapshotted(last') => /\ UNCHANGED screen_scale
                                   /\ last'.snapshot.scale =
                                        temp_scale(last'.snapshot.vg, max_dimension)
                                   /\ last'.snapshot.scale # screen_scale)
         /\ screen_scale' \in ScreenScales )]_vars

\* A capture ran on a screen whose scale is not the default one and used
\* another scale for the snapshot.
C23_Witness ==
    /\ Snapshotted(last)
    /\ screen_scale # NativeScale
    /\ screen_scale \in ScreenScales
    /\ last.snapshot.scale # screen_scale

\* A step of the damage callback.
Damaged(r) == r.op \in {"push_damage", "damage_callback"}

\* (R - origin) * scale, for the damage d that was forwarded.
ExpectedDamage(d) ==
    [x      |-> (d.from.x - d.fb.origin.x) * d.fb.scale,
     y      |-> (d.from.y - d.fb.origin.y) * d.fb.scale,
     width  |-> d.from.width * d.fb.scale,
     height |-> d.from.height * d.fb.scale]

\* C27: a damage region R in root coordinates is forwarded to the surface
\* as exactly (R - layout origin of the surface) scaled by the scale of the
\* surface's buffer, in one call that also requests a repaint; when the
\* session holds no surface the callback makes no call and changes nothing.
C27_DamageIsTranslatedAndScaled ==
    [][Damaged(last')
        => /\ wo \in layout
                => /\ ~crashed'
                   /\ last'.calls = <<"render->damage">>
                   /\ last'.damage.region = ExpectedDamage(last'.damage)
                   /\ last'.damage.repaint
           /\ wo = None
                => /\ ~crashed'
                   /\ last'.calls = <<>>
                   /\ last'.damage = NoDamage
                   /\ UNCHANGED <<sessionVars, layout, mode, render_hooks, next_output,
                                  seatVars>>]_vars

\* Damage at (10, 20) reached a surface placed at (1920, 100) whose buffer
\* has scale 2.
C27_Witness ==
    /\ Damaged(last)
    /\ wo \in layout
    /\ instance_manager # None
    /\ last.damage.from = [x |-> 10, y |-> 20, width |-> 30, height |-> 40]
    /\ last.damage.fb = [origin |-> [x |-> 1920, y |-> 100], scale |-> 2]
    /\ last.damage.region = [x |-> -3820, y |-> -160, width |-> 60, height |-> 80]

\* The callback ran while the session held no surface.
C27_NoSurfaceWitness ==
    /\ Damaged(last)
    /\ wo = None
    /\ last.damage = NoDamage

\* The callback r destroyed a surface.
Destroyed(r) == Made(r, {"wlr_output_destroy"})

\* The calls destroy_output unwinds the session with.
UnwindCalls ==
    {"instance_manager.reset", "view_unmapped.disconnect", "rem_post", "rem_effect",
     "on_output_pre_remove.disconnect", "focus_output"}

\* Call a was made, and before the surface was taken out of the layout.
UnwoundBeforeRemoval(r, a) == CalledBefore(r, a, "wlr_output_layout_remove")

\* The position of the first call a in r.calls.
FirstCall(r, a) == CHOOSE i \in 1..Len(r.calls) :
                      r.calls[i] = a /\ \A j \in 1..(i - 1) : r.calls[j] # a

\* C28: when the session destroys its surface, it first destroys the render
\* instance manager, then disconnects view_unmapped, then removes the hooks,
\* then disconnects on_output_pre_remove, and moves the focus away if the
\* surface had it, and only then removes the surface from the layout and
\* destroys it; nothing of the unwinding comes after the removal, and the
\* session's on_output_pre_remove handler does not run for this destruction.
C28_UnwindsBeforeRemoval ==
    [][Destroyed(last')
        => LET r == last'
               output == find_output(St)
               removal == FirstCall(r, "wlr_output_layout_remove")
           IN  /\ instance_manager # None => UnwoundBeforeRemoval(r, "instance_manager.reset")
               /\ UnwoundBeforeRemoval(r, "view_unmapped.disconnect")
               /\ hooks_set[output] => /\ UnwoundBeforeRemoval(r, "rem_post")
                                       /\ UnwoundBeforeRemoval(r, "rem_effect")
               /\ UnwoundBeforeRemoval(r, "on_output_pre_remove.disconnect")
               /\ active_output = output
                    => /\ UnwoundBeforeRemoval(r, "focus_output")
                       /\ (~crashed' => active_output' # output)
               /\ instance_manager # None
                    => CalledBefore(r, "instance_manager.reset", "view_unmapped.disconnect")
               /\ hooks_set[output]
                    => /\ CalledBefore(r, "view_unmapped.disconnect", "rem_post")
                       /\ CalledBefore(r, "rem_effect", "on_output_pre_remove.disconnect")
               /\ CalledBefore(r, "view_unmapped.disconnect", "on_output_pre_remove.disconnect")
               /\ CalledBefore(r, "wlr_output_layout_remove", "wlr_output_destroy")
               /\ \A j \in (removal + 1)..Len(r.calls) : r.calls[j] \notin UnwindCalls
               /\ ~Made(r, {"output_pre_remove_signal"})]_vars

\* A request destroyed a surface that streamed a window, had the hooks and
\* the focus, and went on to stream from a new surface.
C28_Witness ==
    /\ Did("request_stream") /\ last.ret = "ok"
    /\ Destroyed(last)
    /\ Made(last, {"instance_manager.reset"})
    /\ Made(last, {"rem_post"})
    /\ Made(last, {"focus_output"})
    /\ active_output = Screen
    /\ wo \in layout

\* C32: for every surface, hooks_set is true exactly when post_hook and
\* damage_hook are registered on it, and they are registered at most once.
C32_FlagMatchesRegistration ==
    \A o \in layout : /\ hooks_set[o] <=> render_hooks[o] > 0
                       /\ render_hooks[o] <= 1

\* A request put the hooks back on a surface that had lost them.
C32_Witness ==
    /\ Did("request_stream") /\ last.ret = "ok"
    /\ Made(last, {"add_post"})
    /\ ~Made(last, {"wlr_headless_add_output"})
    /\ wo \in layout
    /\ hooks_set[wo]
    /\ render_hooks[wo] = 1

(***************************************************************************)
(* Properties of part_001, checked under SpecSA.                           *)
(***************************************************************************)
\* part_001 streams: a live surface, a bound window with its unmap
\* subscription, and the render node on the surface.
StreamingSA ==
    /\ preview.output # None /\ preview.output \in layout
    /\ preview.view # None /\ preview.view \in view_unmapped
    /\ live_preview_render_node # None

\* The session fields and host objects part_001 would have after the unmap
\* of its bound window.
AfterUnmapOfBound == sa_view_unmapped_handler(StSA, preview.view)

\* C8: in part_001, when the host session becomes inactive while the plugin
\* streams, the step ends without an error and leaves the session unwound
\* exactly as the unmap of the bound window would: the surface destroyed and
\* its reference absent, no window bound, the render node removed, the unmap
\* subscription disconnected.  A session event with active = true changes
\* no session state.
C8_SessionInactiveUnwinds ==
    /\ [][(last'.op = "session_active" /\ last'.arg = "inactive" /\ StreamingSA) =>
            /\ ~crashed' /\ last'.ret = None
            /\ layout' = layout \ {preview.output}
            /\ preview'.output = None
            /\ preview'.view = None
            /\ live_preview_render_node' = None
            /\ view_unmapped' = {}
            /\ preview' = AfterUnmapOfBound.preview
            /\ live_preview_render_node' = AfterUnmapOfBound.live_preview_render_node
            /\ view_unmapped' = AfterUnmapOfBound.view_unmapped
            /\ layout' = AfterUnmapOfBound.layout
            /\ mode' = AfterUnmapOfBound.mode
            /\ last'.calls = AfterUnmapOfBound.calls]_vars
    /\ [][(last'.op = "session_active" /\ last'.arg = "active") =>
            UNCHANGED <<saSessionVars, saHostVars, crashed>>]_vars

C8_Witness ==
    /\ last.op = "session_active" /\ last.arg = "inactive"
    /\ Made(last, {"remove_child"}) /\ Made(last, {"wlr_output_destroy"})
    /\ layout = {} /\ preview.output = None /\ preview.view = None
    /\ live_preview_render_node = None /\ view_unmapped = {}
    /\ ~crashed

(***************************************************************************)
(* Properties of the scaling, checked under SpecScale.                     *)
(***************************************************************************)
\* The size of exact arithmetic: longer side max, shorter side the floor.
ExactSize(vg, max) ==
    IF vg.width < vg.height
    THEN [width |-> (vg.width * max) \div vg.height, height |-> max]
    ELSE [width |-> max, height |-> (vg.height * max) \div vg.width]

ScaleResults ==
    {r \in {sc.main, sc.sa} :
        \/ r = sc.main /\ "main" \in sc.done
        \/ r = sc.sa /\ "sa" \in sc.done}

\* C10 as stated: the scaling of request_stream yields longer side =
\* max_dimension and shorter side = floor(shorter * max_dimension / longer),
\* max_dimension x max_dimension for a square, 256x192 for 800x600 at 256.
C10_ExactFloor ==
    /\ "main" \in sc.done => sc.main = ExactSize(sc.vg, sc.max)
    /\ "sa" \in sc.done => sc.sa = ExactSize(sc.vg, sc.max)

OneLess(n, exact) == n = exact \/ n = exact - 1

WithinOnePixel(r, vg, max) ==
    LET e == ExactSize(vg, max) IN
    /\ vg.width > vg.height => r.width = max /\ OneLess(r.height, e.height)
    /\ vg.width < vg.height => r.height = max /\ OneLess(r.width, e.width)
    /\ vg.width = vg.height =>
          \/ r = [width |-> max, height |-> max]
          \/ r = [width |-> max, height |-> max - 1]

\* C10, amended: the longer side of the preview equals max_dimension exactly
\* and the shorter side is floor(shorter * max_dimension / longer) or one
\* pixel less, the product of the rounded floating-point ratio being
\* truncated; a square gives max_dimension x max_dimension in part_001 and
\* that or max_dimension x (max_dimension - 1) in live-previews.cpp; 800x600
\* at 256 gives 256x192 in both.
C10_FloorOrOneLess ==
    /\ "main" \in sc.done => WithinOnePixel(sc.main, sc.vg, sc.max)
    /\ "sa" \in sc.done =>
          /\ WithinOnePixel(sc.sa, sc.vg, sc.max)
          /\ sc.vg.width = sc.vg.height => sc.sa = [width |-> sc.max, height |-> sc.max]
    /\ (sc.vg = [width |-> 800, height |-> 600] /\ sc.max = 256) =>
          \A r \in ScaleResults : r = [width |-> 256, height |-> 192]

C10_Witness ==
    /\ sc.done = {"main", "sa"}
    /\ sc.vg.width = sc.vg.height
    /\ sc.main = [width |-> sc.max, height |-> sc.max - 1]
    /\ sc.sa = [width |-> sc.max, height |-> sc.max]

(***************************************************************************)
(* Properties of live-previews.cpp with toplevels without extent, checked  *)
(* under SpecDegenerate.                                                   *)
(***************************************************************************)
\* C11: a request_stream of a window whose geometry has width 0 or height 0
\* is rejected with an error: it creates and resizes no surface, binds no
\* window and leaves current_size as it was.
C11_DegenerateRejected ==
    [][(/\ last'.op = "request_stream"
        /\ last'.arg \in views \cap Toplevels
        /\ geometry[last'.arg] \in DegenerateGeometries)
       => (/\ ~crashed'
           /\ last'.ret \notin {"ok", None}
           /\ UNCHANGED <<current_preview, wo, current_size, instance_manager,
                          layout, mode>>)]_vars

(***************************************************************************)
(* Properties of the frame throttle, checked under SpecFrames.             *)
(***************************************************************************)
Captures(q) == Cardinality({i \in 1..Len(q) : q[i]})

\* C15: with frame_skip = N, among every N + 1 consecutive ticks of
\* post_hook of one stream (no request_stream and no teardown in between)
\* exactly one runs the capture; with N = 0 every tick does.
C15_OneCaptureInEveryWindow ==
    /\ Len(ticks) <= frame_skip + 1
    /\ Len(ticks) = frame_skip + 1 => Captures(ticks) = 1
    /\ (frame_skip = 0 /\ ticks # <<>>) => ticks = <<TRUE>>

C15_Witness ==
    /\ Did("post_hook")
    /\ frame_skip = 2
    /\ ticks = <<FALSE, FALSE, TRUE>>
    /\ \E b \in Toplevels : StreamingFor(b)

\* C29: the deferred idle damage task does nothing when it runs after a
\* teardown: if the window it was scheduled for is no longer the bound one,
\* or the surface is gone, it makes no host call and the process lives on.
C29_IdleDamageAfterTeardownIsNoOp ==
    [][(last'.op = "idle_damage" /\ (preview.view # idle_damage \/ preview.output = None))
        => (last'.calls = <<>> /\ ~crashed')]_vars

\* request_stream used the surface reference after destroy_output had
\* cleared it and before a new surface was created.
NullSurfaceAccess(r) ==
    \E i, j \in 1..Len(r.calls) :
        /\ i < j
        /\ r.calls[i] = "wlr_output_destroy"
        /\ r.calls[j] = "CRASH:null-output"
        /\ \A k \in i..j : r.calls[k] # "wlr_headless_add_output"

\* C30: request_stream of part_001 never reads or writes through
\* preview.output between the destruction of the surface after a rejected
\* resize and the creation of a new surface.
C30_NoAccessThroughClearedSurface ==
    last.op = "request_stream" => ~NullSurfaceAccess(last)

(***************************************************************************)
(* Properties of the first frame of a stream, checked under SpecFrames.    *)
(***************************************************************************)
\* C31: the first tick of post_hook after a successful request_stream runs
\* the capture, whatever frame_skip is, whatever the drop counter was
\* before the request and whatever else happened in between.
C31_FirstTickCaptures ==
    [][(awaiting_frame /\ last'.op = "post_hook")
        => Made(last', {"take_snapshot"})]_vars

\* A stream that had skipped a frame was requested again, another window
\* went away, and the first tick after that captured.
C31_Witness ==
    /\ Did("post_hook")
    /\ ~awaiting_frame
    /\ ticks = <<TRUE>>
    /\ frame_skip = MaxFrameSkip
    /\ drop_frame = 0
    /\ views # ViewIds
    /\ current_preview \in views

(***************************************************************************)
(* Properties of a stream that is left running, checked under SpecLive.    *)
(***************************************************************************)
\* The tick that just ran took a snapshot.
Captured == last.op = "post_hook" /\ Made(last, {"take_snapshot"})

\* C33: every run of damage_hook on a live surface damages it whole and
\* schedules another redraw; and a stream that from some point on is never
\* released or torn down captures again and again, given that the frames
\* the hook asks for do come.
C33_StreamKeepsCapturing ==
    /\ [][(last'.op = "damage_hook" /\ wo \in layout)
            => (last'.calls = <<"damage_whole", "schedule_redraw">> /\ ~crashed')]_vars
    /\ \A b \in Toplevels :
            <>[](StreamingFor(b) /\ ~crashed) => []<>Captured

\* Two ticks in a row of a running stream, the second one a capture.
C33_Witness ==
    /\ Captured
    /\ ~crashed
    /\ last.again
    /\ frame_skip = 0
    /\ \E b \in Toplevels : StreamingFor(b)

====
